---- MODULE Spec2Model ----
(***************************************************************************)
(* rustful, src/handler/routing.rs: the path segmenter (Route::segments),  *)
(* the routing cursor RouteState (get/skip/keep/fuse/variables/snapshot/   *)
(* go_to/is_empty) and the variable merger VariableIter.                   *)
(*                                                                         *)
(* A byte string is a sequence of one-character strings; a name of the     *)
(* name table is a string ("" is the empty name); Option<T> is a set with  *)
(* at most one element; a HashMap is a function on its set of keys.        *)
(***************************************************************************)
EXTENDS Integers, Sequences, FiniteSets, TLC

\* How far the cursor may run past the last segment (skip/keep/fuse do not stop).
MaxOver == 1
\* How many distinct snapshots a caller of the API takes and holds.
MaxSnaps == 1
\* How many snapshots the backtracking matcher holds on its stack.
MaxDepth == 2
\* The longest single path given to the segmenter.
MaxPathLen == 4
\* The most elements of a container given to the segmenter, and their length.
MaxItems == 2
MaxItemLen == 2

None == {}
Some(x) == {x}
Unwrap(o) == CHOOSE x \in o : TRUE

\* ---------------------------------------------------------------- inputs

Slash == "/"

PathUsers == <<"/","u","s","e","r","s","/","4","2","/","e","d","i","t">>
PathImages == <<"i","m","a","g","e","s","/","2","0","2","4","/","0","7">>
PathAB == <<"/","a","/","b","/">>
PathABC == <<"a","/","b","/","c">>
PathRoot == <<"/">>
PathSomewhere == <<"/","p","a","t","h","/","t","o","/","s","o","m","e","w","h","e","r","e","/">>

\* The container of the doc-test of Route::segments, and the one of the spec.
ContainerDoc ==
    << <<"/","p","a","t","h">>, <<"t","o","/","s","o","m","e","w","h","e","r","e","/">>,
       <<"/">>, <<"/","e","l","s","e","/">> >>
ContainerABCD == << <<"/","a">>, <<"b","/">>, <<"/">>, <<"c","/","d","/">> >>

\* The bytes the generated paths are made of.
Alphabet == {Slash, "a", "b"}

\* The byte strings over Alphabet of length at most n.
RECURSIVE StringsUpTo(_)
StringsUpTo(n) ==
    IF n = 0 THEN {<< >>}
    ELSE LET shorter == StringsUpTo(n - 1)
         IN shorter \cup {Append(s, c) : s \in shorter, c \in Alphabet}

\* The sequences of at most n elements of S.
RECURSIVE SeqsUpTo(_, _)
SeqsUpTo(S, n) ==
    IF n = 0 THEN {<< >>}
    ELSE LET shorter == SeqsUpTo(S, n - 1)
         IN shorter \cup {Append(s, x) : s \in shorter, x \in S}

NamesEmpty == << >>
NamesId == <<"", "id", "">>
NamesPath == <<"", "path">>
NamesOneId == <<"id">>
NamesPathId == <<"path", "id">>
NamesIdId == <<"id", "id">>

NameTables == {NamesEmpty, NamesId, NamesPath, NamesOneId, NamesPathId, NamesIdId}

\* ------------------------------------------------------------- segmenter

\* Mutant: split that leaves out the empty runs.
RECURSIVE split_nonempty(_, _)
split_nonempty(s, run) ==
    IF s = << >> THEN (IF run = << >> THEN << >> ELSE <<run>>)
    ELSE IF Head(s) = Slash
    THEN (IF run = << >> THEN << >> ELSE <<run>>) \o split_nonempty(Tail(s), << >>)
    ELSE split_nonempty(Tail(s), Append(run, Head(s)))

\* slice::split(is_slash): the runs between separators, empty runs included.
RECURSIVE split(_, _)
split(s, run) ==
    IF s = << >> THEN <<run>>
    ELSE IF Head(s) = Slash THEN <<run>> \o split(Tail(s), << >>)
    ELSE split(Tail(s), Append(run, Head(s)))

\* Mutant: the trailing separator is not stripped.
segments_keep_trailing(path) ==
    LET s1 == IF Len(path) > 0 /\ path[1] = Slash THEN Tail(path) ELSE path
    IN IF Len(s1) = 0 THEN << >> ELSE split(s1, << >>)

\* Mutant: no RouteIter::Root for an empty remainder.
segments_no_root(path) ==
    LET s1 == IF Len(path) > 0 /\ path[1] = Slash THEN Tail(path) ELSE path
        s2 == IF Len(s1) > 0 /\ s1[Len(s1)] = Slash THEN SubSeq(s1, 1, Len(s1) - 1) ELSE s1
    IN split(s2, << >>)

\* <[u8] as Route>::segments, collected.
segments(path) ==
    LET s1 == IF Len(path) > 0 /\ path[1] = Slash THEN Tail(path) ELSE path
        s2 == IF Len(s1) > 0 /\ s1[Len(s1)] = Slash THEN SubSeq(s1, 1, Len(s1) - 1) ELSE s1
    IN IF Len(s2) = 0 THEN << >> ELSE split(s2, << >>)

\* str::as_bytes: a str is held as its UTF-8 bytes.
as_bytes(s) == s

\* <str as Route>::segments
str_segments(s) == segments(as_bytes(s))

\* Mutant: flat_map that ends at the first element without segments.
RECURSIVE flat_map_stop_at_root(_)
flat_map_stop_at_root(items) ==
    IF items = << >> \/ segments(Head(items)) = << >> THEN << >>
    ELSE segments(Head(items)) \o flat_map_stop_at_root(Tail(items))

\* self.into_iter().flat_map(segments), collected.
RECURSIVE flat_map(_)
flat_map(items) ==
    IF items = << >> THEN << >>
    ELSE segments(Head(items)) \o flat_map(Tail(items))

\* <I as Route>::segments for a container of path-like elements
container_segments(items) == flat_map(items)

\* ------------------------------------------------------------ RouteState

RouteState_from(path) ==
    LET r == segments(path)
    IN [route |-> r, variables |-> [i \in 1..Len(r) |-> None], index |-> 0, var_index |-> 0]

\* Mutant: a write past the end appends the slot.
set_slot_growing(vars, i, x) ==
    IF i < Len(vars) THEN [vars EXCEPT ![i + 1] = x] ELSE Append(vars, x)

\* Vec::get_mut(index).map(|v| *v = x): writes only when index is in range.
set_slot(vars, i, x) ==
    IF i < Len(vars) THEN [vars EXCEPT ![i + 1] = x] ELSE vars

get(self) ==
    IF self.index < Len(self.route) THEN Some(self.route[self.index + 1]) ELSE None

\* Mutant: skip that only advances and leaves the slot as it was.
skip_forgetful(self) == [self EXCEPT !.index = self.index + 1]

skip(self) ==
    [self EXCEPT !.variables = set_slot(self.variables, self.index, None),
                 !.index = self.index + 1]

\* Mutant: keep that numbers the slot by the segment's position.
keep_by_position(self) ==
    [self EXCEPT !.variables = set_slot(self.variables, self.index, Some(self.index)),
                 !.index = self.index + 1,
                 !.var_index = self.var_index + 1]

\* Mutant: keep that does not allocate (var_index is not incremented).
keep_no_alloc(self) ==
    [self EXCEPT !.variables = set_slot(self.variables, self.index, Some(self.var_index)),
                 !.index = self.index + 1]

keep(self) ==
    [self EXCEPT !.variables = set_slot(self.variables, self.index, Some(self.var_index)),
                 !.index = self.index + 1,
                 !.var_index = self.var_index + 1]

\* Mutant: fuse that allocates like keep (var_index is incremented).
fuse_allocating(self) ==
    [self EXCEPT !.variables = set_slot(self.variables, self.index, Some(self.var_index)),
                 !.index = self.index + 1,
                 !.var_index = self.var_index + 1]

\* Mutant: fuse that extends the slot of the previous keep.
fuse_previous(self) ==
    [self EXCEPT !.variables = set_slot(self.variables, self.index,
                                        Some(IF self.var_index > 0 THEN self.var_index - 1 ELSE 0)),
                 !.index = self.index + 1]

fuse(self) ==
    [self EXCEPT !.variables = set_slot(self.variables, self.index, Some(self.var_index)),
                 !.index = self.index + 1]

snapshot(self) == <<self.index, self.var_index>>

\* Mutant: go_to that also undoes the slots from the restored position on.
go_to_clearing(self, snap) ==
    [self EXCEPT !.index = snap[1], !.var_index = snap[2],
                 !.variables = [i \in 1..Len(self.variables) |->
                                   IF i > snap[1] THEN None ELSE self.variables[i]]]

\* Mutant: go_to that restores the position only.
go_to_index_only(self, snap) == [self EXCEPT !.index = snap[1]]

go_to(self, snap) ==
    [self EXCEPT !.index = snap[1], !.var_index = snap[2]]

is_empty(self) == self.index = Len(self.route)

\* The filter_map of variables(): (slot id, segment) of the assigned segments.
values(self) ==
    LET n == Len(self.route)
        assigned == SelectSeq([i \in 1..n |-> i], LAMBDA i : self.variables[i] # None)
    IN [j \in 1..Len(assigned) |->
            <<Unwrap(self.variables[assigned[j]]), self.route[assigned[j]]>>]

\* ---------------------------------------------------------- VariableIter

VariableIter_new(names, iter) == [iter |-> iter, names |-> names, current |-> None]

\* Mutant: the assertion with <= for <.
assert_fails_off_by_one(next_index, names) == ~(next_index <= Len(names))

\* debug_assert!(next_index < self.names.len()) fails
assert_fails(next_index, names) == ~(next_index < Len(names))

\* Mutant: the lookup without the is_empty() arm.
lookup_any_name(names, next_index) ==
    IF next_index < Len(names) THEN Some(names[next_index + 1]) ELSE None

\* self.names.get(next_index), None also for an empty name
lookup(names, next_index) ==
    IF next_index < Len(names) /\ names[next_index + 1] # ""
    THEN Some(names[next_index + 1]) ELSE None

\* Mutant: the separator is not pushed.
push_segment_no_slash(segment, next_segment) == segment \o next_segment

\* segment.push_char('/'); segment.push_bytes(next_segment)
push_segment(segment, next_segment) == segment \o <<Slash>> \o next_segment

\* Mutant: a sequence continues when the name is the same.
continues_by_name(cur, next_index, next_name) == cur[2] = next_name

\* Mutant: no segment continues a sequence.
continues_never(cur, next_index, next_name) == FALSE

\* if index == next_index: the segment is a part of the current sequence
continues(cur, next_index, next_name) == cur[1] = next_index

\* One call of next(): the item returned, the iterator afterwards, and whether
\* the debug assertion failed (only a build with debug assertions checks it).
RECURSIVE VariableIter_next(_, _)
VariableIter_next(it, debug) ==
    IF it.iter = << >>
    THEN [panic |-> FALSE,
          item |-> IF it.current = None THEN None
                   ELSE Some(<<Unwrap(it.current)[2], Unwrap(it.current)[3]>>),
          it |-> [it EXCEPT !.current = None]]
    ELSE LET next_index == Head(it.iter)[1]
             next_segment == Head(it.iter)[2]
             rest == [it EXCEPT !.iter = Tail(it.iter)]
             next_name == lookup(it.names, next_index)
         IN IF debug /\ assert_fails(next_index, it.names)
            THEN [panic |-> TRUE, item |-> None, it |-> rest]
            ELSE IF next_name = None
            THEN VariableIter_next(rest, debug)
            ELSE IF it.current = None
            THEN VariableIter_next(
                    [rest EXCEPT !.current = Some(<<next_index, Unwrap(next_name), next_segment>>)],
                    debug)
            ELSE LET cur == Unwrap(it.current)
                 IN IF continues(cur, next_index, Unwrap(next_name))
                    THEN VariableIter_next(
                            [rest EXCEPT !.current =
                                Some(<<cur[1], cur[2], push_segment(cur[3], next_segment)>>)],
                            debug)
                    ELSE [panic |-> FALSE,
                          item |-> Some(<<cur[2], cur[3]>>),
                          it |-> [rest EXCEPT !.current =
                                    Some(<<next_index, Unwrap(next_name), next_segment>>)]]

\* Mutant: an insert that keeps the value the key already has.
insert_keep_first(m, k, v) ==
    [x \in (DOMAIN m) \cup {k} |-> IF x \in DOMAIN m THEN m[x] ELSE v]

\* HashMap::insert
insert(m, k, v) == [x \in (DOMAIN m) \cup {k} |-> IF x = k THEN v ELSE m[x]]

EmptyMap == [x \in {} |-> << >>]

\* for (name, value) in VariableIter { var_map.insert(name, value) }
RECURSIVE for_insert(_, _, _)
for_insert(it, var_map, debug) ==
    LET r == VariableIter_next(it, debug)
    IN IF r.panic THEN [panic |-> TRUE, map |-> EmptyMap]
       ELSE IF r.item = None THEN [panic |-> FALSE, map |-> var_map]
       ELSE for_insert(r.it, insert(var_map, Unwrap(r.item)[1], Unwrap(r.item)[2]), debug)

\* The items VariableIter yields until it returns None, in order.
RECURSIVE collect(_, _)
collect(it, debug) ==
    LET r == VariableIter_next(it, debug)
    IN IF r.panic \/ r.item = None THEN << >>
       ELSE <<Unwrap(r.item)>> \o collect(r.it, debug)

\* RouteState::variables(names): the mapping, or a panic of the debug assertion.
variables_call(self, names, debug) ==
    for_insert(VariableIter_new(names, values(self)), EmptyMap, debug)

\* ----------------------------------------------------------------- state

VARIABLES
    route,            \* RouteState.route: the segments of the path
    variables,        \* RouteState.variables: one Option<slot id> per segment
    index,            \* RouteState.index
    var_index,        \* RouteState.var_index
    debug_assertions, \* whether the build checks debug_assert!
    snaps,            \* the snapshots the caller holds (returned by snapshot())
    kept,             \* the slot ids keep() has written since the last go_to
    decisions,        \* matcher: the decisions that survive backtracking
    backtracked,      \* matcher: whether it has restored a snapshot
    input,            \* the path-like value segments() is called on
    output            \* the segments collected from it, once it was called

vars == <<route, variables, index, var_index, debug_assertions, snaps, kept,
          decisions, backtracked, input, output>>

Self == [route |-> route, variables |-> variables, index |-> index, var_index |-> var_index]

Paths == {PathAB, PathABC, PathRoot}

MatcherPaths == {PathUsers, PathImages, PathAB, PathRoot}

\* RouteState::from(path), in a build with or without debug assertions.
InitWith(paths) ==
    /\ \E p \in paths :
          LET rs == RouteState_from(p)
          IN /\ input = [kind |-> "bytes", val |-> p]
             /\ output = Some(rs.route)
             /\ route = rs.route
             /\ variables = rs.variables
             /\ index = rs.index
             /\ var_index = rs.var_index
    /\ debug_assertions \in BOOLEAN
    /\ snaps = {}
    /\ kept = {}
    /\ decisions = << >>
    /\ backtracked = FALSE

Init == InitWith(Paths)

MatcherInit == InitWith(MatcherPaths)

\* A &mut self method overwrites the fields of self.
Store(rs) ==
    /\ route' = rs.route
    /\ variables' = rs.variables
    /\ index' = rs.index
    /\ var_index' = rs.var_index
    /\ UNCHANGED <<input, output>>

\* A &self method leaves them alone.
Frame == UNCHANGED <<route, variables, index, var_index, input, output>>

\* ------------------------------------------------ the calls of RouteState

CallGet ==
    /\ \E ret \in {get(Self)} : Frame
    /\ UNCHANGED <<debug_assertions, snaps, kept>>

CallIsEmpty ==
    /\ \E ret \in {is_empty(Self)} : Frame
    /\ UNCHANGED <<debug_assertions, snaps, kept>>

CallSkip ==
    /\ index < Len(route) + MaxOver
    /\ Store(skip(Self))
    /\ UNCHANGED <<debug_assertions, snaps, kept>>

CallKeep ==
    /\ index < Len(route) + MaxOver
    /\ Store(keep(Self))
    /\ kept' = IF index < Len(route) THEN kept \cup {var_index} ELSE kept
    /\ UNCHANGED <<debug_assertions, snaps>>

CallFuse ==
    /\ index < Len(route) + MaxOver
    /\ Store(fuse(Self))
    /\ UNCHANGED <<debug_assertions, snaps, kept>>

CallVariables(names) ==
    /\ \E ret \in {variables_call(Self, names, debug_assertions)} : Frame
    /\ UNCHANGED <<debug_assertions, snaps, kept>>

CallSnapshot(max) ==
    /\ snapshot(Self) \in snaps \/ Cardinality(snaps) < max
    /\ snaps' = snaps \cup {snapshot(Self)}
    /\ Frame
    /\ UNCHANGED <<debug_assertions, kept>>

CallGoTo(snap) ==
    /\ Store(go_to(Self, snap))
    /\ kept' = {}
    /\ backtracked' = TRUE
    /\ UNCHANGED debug_assertions

\* ------------------------------------- Spec: any caller of the public API

Get == CallGet /\ UNCHANGED <<decisions, backtracked>>

IsEmpty == CallIsEmpty /\ UNCHANGED <<decisions, backtracked>>

Skip == CallSkip /\ UNCHANGED <<decisions, backtracked>>

Keep == CallKeep /\ UNCHANGED <<decisions, backtracked>>

Fuse == CallFuse /\ UNCHANGED <<decisions, backtracked>>

Variables == \E names \in NameTables : CallVariables(names) /\ UNCHANGED <<decisions, backtracked>>

Snapshot == CallSnapshot(MaxSnaps) /\ UNCHANGED <<decisions, backtracked>>

GoTo == \E snap \in snaps : CallGoTo(snap) /\ UNCHANGED <<snaps, decisions>>

Next == Get \/ IsEmpty \/ Skip \/ Keep \/ Fuse \/ Variables \/ Snapshot \/ GoTo

Spec == Init /\ [][Next]_vars

\* --------------- MatcherSpec: a backtracking matcher, snapshots as a stack

MatchGet == CallGet /\ UNCHANGED <<decisions, backtracked>>

MatchIsEmpty == CallIsEmpty /\ UNCHANGED <<decisions, backtracked>>

MatchSkip == CallSkip /\ decisions' = Append(decisions, "skip") /\ UNCHANGED backtracked

MatchKeep == CallKeep /\ decisions' = Append(decisions, "keep") /\ UNCHANGED backtracked

MatchFuse == CallFuse /\ decisions' = Append(decisions, "fuse") /\ UNCHANGED backtracked

MatchVariables == \E names \in NameTables : CallVariables(names) /\ UNCHANGED <<decisions, backtracked>>

MatchSnapshot == CallSnapshot(MaxDepth) /\ UNCHANGED <<decisions, backtracked>>

\* Restoring a snapshot abandons the decisions and the snapshots made after it.
MatchGoTo ==
    \E snap \in snaps :
        /\ CallGoTo(snap)
        /\ snaps' = {t \in snaps : t[1] <= snap[1]}
        /\ decisions' = SubSeq(decisions, 1, snap[1])

MatcherNext ==
    \/ MatchGet \/ MatchIsEmpty \/ MatchSkip \/ MatchKeep \/ MatchFuse
    \/ MatchVariables \/ MatchSnapshot \/ MatchGoTo

MatcherSpec == MatcherInit /\ [][MatcherNext]_vars

\* ------------------------- SegmenterSpec: segments() of a path-like value

BytePaths == StringsUpTo(MaxPathLen) \cup {PathSomewhere, PathUsers, PathImages}

Containers == SeqsUpTo(StringsUpTo(MaxItemLen), MaxItems) \cup {ContainerDoc, ContainerABCD}

\* A path-like value: a byte path, a text path or a container of paths;
\* no RouteState is built from it here.
SegmenterInit ==
    /\ \/ \E p \in BytePaths : input = [kind |-> "bytes", val |-> p]
       \/ \E p \in BytePaths : input = [kind |-> "str", val |-> p]
       \/ \E c \in Containers : input = [kind |-> "container", val |-> c]
    /\ output = None
    /\ route = << >>
    /\ variables = << >>
    /\ index = 0
    /\ var_index = 0
    /\ debug_assertions = FALSE
    /\ snaps = {}
    /\ kept = {}
    /\ decisions = << >>
    /\ backtracked = FALSE

NoRouteState ==
    UNCHANGED <<route, variables, index, var_index, debug_assertions, snaps, kept,
                decisions, backtracked, input>>

BytesSegments ==
    /\ input.kind = "bytes"
    /\ output = None
    /\ output' = Some(segments(input.val))
    /\ NoRouteState

StrSegments ==
    /\ input.kind = "str"
    /\ output = None
    /\ output' = Some(str_segments(input.val))
    /\ NoRouteState

ContainerSegments ==
    /\ input.kind = "container"
    /\ output = None
    /\ output' = Some(container_segments(input.val))
    /\ NoRouteState

SegmenterNext == BytesSegments \/ StrSegments \/ ContainerSegments

SegmenterSpec == SegmenterInit /\ [][SegmenterNext]_vars

\* ------------------------------------------------------------ references

Bytes(m) == [panic |-> FALSE, map |-> m]

\* The matcher's decision d applied to rs.
decide(rs, d) ==
    CASE d = "skip" -> skip(rs)
      [] d = "keep" -> keep(rs)
      [] d = "fuse" -> fuse(rs)

RECURSIVE replay(_, _)
replay(rs, ds) == IF ds = << >> THEN rs ELSE replay(decide(rs, Head(ds)), Tail(ds))

\* A fresh RouteState for the route of the current one.
Fresh == [route |-> route, variables |-> [i \in 1..Len(route) |-> None],
          index |-> 0, var_index |-> 0]

Slots == {i \in 1..Len(route) : variables[i] # None}

\* ---------------------------------------------------------------- claims

\* The scenario of C1: "/users/42/edit" in a fresh state after skip, keep, skip.
C1_Scenario ==
    /\ route = segments(PathUsers)
    /\ ~backtracked
    /\ decisions = <<"skip", "keep", "skip">>

\* C1 as stated: in that scenario variables(["", "id", ""]) returns exactly
\* the mapping {"id": "42"}.
C1_Original ==
    C1_Scenario =>
        variables_call(Self, NamesId, debug_assertions) = Bytes("id" :> <<"4", "2">>)

\* C1 amended: in that scenario keep gives "42" the slot id 0, so
\* variables(["", "id", ""]) returns the empty mapping (slot 0 has the empty
\* name) and variables(["id"]) returns exactly {"id": "42"}.
C1_Amended ==
    C1_Scenario =>
        /\ variables = <<None, Some(0), None>>
        /\ variables_call(Self, NamesId, debug_assertions) = Bytes(EmptyMap)
        /\ variables_call(Self, NamesOneId, debug_assertions) = Bytes("id" :> <<"4", "2">>)

C1_Witness == C1_Scenario /\ index = 3 /\ var_index = 1

\* The scenario of C2: [images, 2024, 07] after skip, keep, fuse.
C2_Scenario ==
    /\ route = segments(PathImages)
    /\ ~backtracked
    /\ decisions = <<"skip", "keep", "fuse">>

\* C2 as stated: the kept segment and the fused segment after it share one slot
\* id, and variables([_, "path"]) contains the binding ("path", "2024/07").
C2_Original ==
    C2_Scenario =>
        LET r == variables_call(Self, NamesPath, debug_assertions)
        IN /\ variables[2] = variables[3]
           /\ ~r.panic
           /\ "path" \in DOMAIN r.map
           /\ r.map["path"] = <<"2", "0", "2", "4", "/", "0", "7">>

\* The scenario of the amended C2: [images, 2024, 07] after skip, fuse, keep.
C2_FuseKeep ==
    /\ route = segments(PathImages)
    /\ ~backtracked
    /\ decisions = <<"skip", "fuse", "keep">>

\* C2 amended: a fuse() and the fuse() or keep() on the segment right after it
\* share one slot id, while a fuse() right after a keep() gets the next slot id.
\* For [images, 2024, 07]: after skip, fuse, keep a name table whose slot 0 is
\* "path" gives the binding ("path", "2024/07"); after skip, keep, fuse the
\* table [_, "path"] gives exactly {"path": "07"}.
C2_Amended ==
    /\ \A i \in 1..(Len(route) - 1) :
          i + 1 <= Len(decisions) =>
             /\ (decisions[i] = "fuse" /\ decisions[i + 1] \in {"fuse", "keep"})
                   => (variables[i] # None /\ variables[i + 1] = variables[i])
             /\ (decisions[i] = "keep" /\ decisions[i + 1] = "fuse")
                   => (variables[i] # None /\ variables[i + 1] = Some(Unwrap(variables[i]) + 1))
    /\ C2_FuseKeep =>
          variables_call(Self, NamesPathId, debug_assertions)
             = Bytes("path" :> <<"2", "0", "2", "4", "/", "0", "7">>)
    /\ C2_Scenario =>
          variables_call(Self, NamesPath, debug_assertions) = Bytes("path" :> <<"0", "7">>)

C2_Witness == C2_FuseKeep /\ variables = <<None, Some(0), Some(0)>>

\* C3 as stated: in every reachable state 0 <= index <= number of segments.
C3_IndexInRange == 0 <= index /\ index <= Len(route)

\* C4 as stated: is_empty() is true exactly when get() returns none.
C4_EmptyIffNone == is_empty(Self) <=> (get(Self) = None)

\* C5: under the matcher (snapshots restored in stack order), once every
\* segment from the restored index on has been decided again (or when nothing
\* was restored), variables(names) equals variables(names) of a fresh
\* RouteState to which only the surviving decisions were applied.
C5_SurvivingDecisions ==
    (index >= Len(route) \/ ~backtracked) =>
        LET replayed == replay(Fresh, decisions)
        IN \A names \in NameTables :
              variables_call(Self, names, debug_assertions)
                 = variables_call(replayed, names, debug_assertions)

C5_Witness ==
    /\ backtracked
    /\ index >= Len(route)
    /\ Cardinality(snaps) = 2
    /\ Len(route) = 3
    /\ variables_call(Self, NamesPathId, FALSE).map # EmptyMap

\* Whether slot id k has a name in the table (in range and not empty).
Named(names, k) == k < Len(names) /\ names[k + 1] # ""

\* The segments whose slot assignment is k, in path order.
SegsOf(k) ==
    LET at == SelectSeq([i \in 1..Len(route) |-> i], LAMBDA i : variables[i] = Some(k))
    IN [j \in 1..Len(at) |-> route[at[j]]]

\* The segments joined with '/'.
RECURSIVE Join(_)
Join(segs) ==
    IF segs = << >> THEN << >>
    ELSE IF Len(segs) = 1 THEN segs[1]
    ELSE segs[1] \o <<Slash>> \o Join(Tail(segs))

\* C6: go_to(s), for every snapshot s the caller holds, leaves the route and
\* every slot assignment as they are, so that variables() reports after the
\* go_to what it reported before it, stale assignments included.
C6_GoToFrame ==
    /\ \A snap \in snaps :
          /\ go_to(Self, snap).route = route
          /\ go_to(Self, snap).variables = variables
    /\ \A names \in NameTables :
          LET before == variables_call(Self, names, debug_assertions)
          IN \A snap \in snaps :
                variables_call(go_to(Self, snap), names, debug_assertions) = before

\* After a go_to back to the start of "a/b/c" the slot written by the
\* abandoned keep on "a" is still there and still reported.
C6_Witness ==
    /\ backtracked
    /\ route = segments(PathABC)
    /\ index = 0
    /\ <<index, var_index>> \in snaps
    /\ variables[1] = Some(0)
    /\ variables_call(Self, NamesPathId, debug_assertions) = Bytes("path" :> <<"a">>)

\* C7: every go_to(s) step, s a snapshot the caller holds, ends with index and
\* var_index equal to the values s was taken with, whatever was called since;
\* when s is the snapshot of the current state the step changes neither.
C7_GoToRestores ==
    [][\A snap \in snaps :
          CallGoTo(snap) =>
             /\ index' = snap[1]
             /\ var_index' = snap[2]
             /\ snap = snapshot(Self) => (index' = index /\ var_index' = var_index)]_vars

\* A go_to has restored a snapshot after decisions were made past it.
C7_Witness ==
    /\ backtracked
    /\ kept = {}
    /\ <<index, var_index>> \in snaps
    /\ index > 0
    /\ \E i \in Slots : i > index

\* C8 as stated: variables() with an empty name table returns an empty mapping
\* and does not fail, whatever keep and fuse have assigned.
C8_Original ==
    variables_call(Self, NamesEmpty, debug_assertions) = Bytes(EmptyMap)

\* C8 amended: variables() with an empty name table never returns a binding;
\* it returns the empty mapping in a build without debug assertions, and also
\* with them as long as no segment is assigned, and panics on the debug
\* assertion exactly when the build has them and some segment is assigned.
C8_Amended ==
    LET r == variables_call(Self, NamesEmpty, debug_assertions)
    IN /\ r.map = EmptyMap
       /\ r.panic <=> (debug_assertions /\ Slots # {})

C8_Witness ==
    /\ ~debug_assertions
    /\ Cardinality(Slots) >= 2
    /\ variables_call(Self, NamesEmpty, debug_assertions) = Bytes(EmptyMap)

\* The body of C9: every binding is the join of all segments of its slot id.
C9_Body(names) ==
    LET r == variables_call(Self, names, debug_assertions)
    IN ~r.panic =>
          \A n \in DOMAIN r.map :
              \E k \in 0..(Len(names) - 1) :
                  /\ names[k + 1] = n
                  /\ SegsOf(k) # << >>
                  /\ r.map[n] = Join(SegsOf(k))

\* C9 as stated: in every reachable state and for every name table, each
\* binding's value is the '/'-joined concatenation, in path order, of every
\* segment whose slot assignment equals the binding's slot id.
C9_Original == \A names \in NameTables : C9_Body(names)

\* No segment of another named slot lies between two segments of one named slot.
NoSplit(names) ==
    \A i, j, l \in Slots :
        (i < j /\ j < l /\ variables[i] = variables[l] /\ variables[j] # variables[i])
            => ~(Named(names, Unwrap(variables[i])) /\ Named(names, Unwrap(variables[j])))

\* C9 amended: the same, provided that no segment with another named slot id
\* lies between two segments that share a named slot id.
C9_Amended == \A names \in NameTables : NoSplit(names) => C9_Body(names)

C9_Witness ==
    /\ route = segments(PathABC)
    /\ variables = <<Some(0), Some(0), Some(1)>>
    /\ variables_call(Self, NamesPathId, debug_assertions)
          = Bytes(("path" :> <<"a", "/", "b">>) @@ ("id" :> <<"c">>))

\* C10: a keep() writes a slot id greater than every slot id keep() has written
\* since the last go_to, and only a go_to step lowers var_index.
C10_KeepIncreases ==
    [][/\ (Keep /\ index < Len(route)) => \A k \in kept : var_index > k
       /\ var_index' < var_index => GoTo]_vars

C10_Witness == Cardinality(kept) >= 2 /\ backtracked

\* The state with the slot of every segment whose slot id has no name cleared.
OnlyNamed(names) ==
    [Self EXCEPT !.variables =
        [i \in 1..Len(variables) |->
            IF variables[i] # None /\ Named(names, Unwrap(variables[i]))
            THEN variables[i] ELSE None]]

\* C11: the mapping variables(names) returns has no empty key; every key is a
\* non-empty names[k] of a slot id k in range that some segment holds; and the
\* segments whose slot id is out of range or has the empty name contribute to
\* no value: the mapping is the one returned with those segments unassigned.
C11_KeysAreNamedSlots ==
    \A names \in NameTables :
        LET r == variables_call(Self, names, debug_assertions)
        IN ~r.panic =>
              /\ "" \notin DOMAIN r.map
              /\ \A n \in DOMAIN r.map :
                    \E k \in 0..(Len(names) - 1) :
                        /\ names[k + 1] = n
                        /\ \E i \in Slots : variables[i] = Some(k)
              /\ r = variables_call(OnlyNamed(names), names, debug_assertions)

\* "a/b/c" with slots 0, 1, 2 and the names ["", "path"]: slot 0 has the empty
\* name, slot 2 is out of range, and only "b" is returned.
C11_Witness ==
    /\ ~debug_assertions
    /\ route = segments(PathABC)
    /\ variables = <<Some(0), Some(1), Some(2)>>
    /\ variables_call(Self, NamesPath, debug_assertions) = Bytes("path" :> <<"b">>)

\* ------------------------------------------------- claims on the segmenter

\* The path without one leading and one trailing separator, as its first and
\* last position.
FirstKept(path) == IF Len(path) > 0 /\ path[1] = Slash THEN 2 ELSE 1

LastKept(path) ==
    IF Len(path) >= FirstKept(path) /\ path[Len(path)] = Slash THEN Len(path) - 1 ELSE Len(path)

\* The positions of the separators that remain, in increasing order, between
\* the position before the remainder and the position after it.
Cuts(path) ==
    LET lo == FirstKept(path)
        hi == LastKept(path)
        inner == SelectSeq([i \in 1..Len(path) |-> i],
                           LAMBDA i : lo <= i /\ i <= hi /\ path[i] = Slash)
    IN <<lo - 1>> \o inner \o <<hi + 1>>

\* The reference of C12: nothing for an empty remainder, else the runs between
\* consecutive cuts.
RefSegments(path) ==
    IF LastKept(path) < FirstKept(path) THEN << >>
    ELSE LET cuts == Cuts(path)
         IN [j \in 1..(Len(cuts) - 1) |-> SubSeq(path, cuts[j] + 1, cuts[j + 1] - 1)]

Single == input.kind \in {"bytes", "str"}

\* C12: for a single byte or text path segments() is the reference: one
\* leading and one trailing '/' removed, nothing if the remainder is empty,
\* else the runs between the separators of the remainder, in order; "/" and ""
\* give nothing and "/path/to/somewhere/" gives [path, to, somewhere].
C12_SegmentsIsReference ==
    (Single /\ output # None) =>
        /\ Unwrap(output) = RefSegments(input.val)
        /\ input.val \in {PathRoot, << >>} => Unwrap(output) = << >>
        /\ input.val = PathSomewhere =>
              Unwrap(output) = << <<"p","a","t","h">>, <<"t","o">>,
                                  <<"s","o","m","e","w","h","e","r","e">> >>

C12_Witness ==
    /\ input = [kind |-> "str", val |-> <<"/", "a", "/", "b">>]
    /\ output = Some(<< <<"a">>, <<"b">> >>)

\* The segments of every element of a sequence of segments are non-empty.
AllNonEmpty(segs) == \A i \in 1..Len(segs) : segs[i] # << >>

\* C13 as stated: every segment segments() produces is non-empty.
C13_Original == output # None => AllNonEmpty(Unwrap(output))

\* The remainder of the path has an empty run: it starts or ends with a
\* separator or holds two in a row.
HasEmptyRun(path) ==
    LET lo == FirstKept(path)
        hi == LastKept(path)
    IN /\ lo <= hi
       /\ \/ path[lo] = Slash
          \/ path[hi] = Slash
          \/ \E i \in lo..(hi - 1) : path[i] = Slash /\ path[i + 1] = Slash

\* C13 amended: no segment holds a separator, and the segments of a path are
\* all non-empty exactly when its remainder (one leading and one trailing '/'
\* removed) neither starts nor ends with a separator nor holds two in a row;
\* "a//b" gives an empty segment. A container has an empty segment exactly
\* when one of its elements has.
C13_Amended ==
    output # None =>
        /\ \A i \in 1..Len(Unwrap(output)) :
              \A j \in 1..Len(Unwrap(output)[i]) : Unwrap(output)[i][j] # Slash
        /\ Single => (AllNonEmpty(Unwrap(output)) <=> ~HasEmptyRun(input.val))
        /\ input.kind = "container" =>
              (AllNonEmpty(Unwrap(output))
                  <=> \A e \in 1..Len(input.val) : ~HasEmptyRun(input.val[e]))
        /\ input.val = <<"a", "/", "/", "b">> =>
              Unwrap(output) = << <<"a">>, << >>, <<"b">> >>

C13_Witness ==
    /\ input = [kind |-> "bytes", val |-> <<"a", "/", "/", "b">>]
    /\ output = Some(<< <<"a">>, << >>, <<"b">> >>)

OnlySlashes(path) == Len(path) >= 1 /\ \A i \in 1..Len(path) : path[i] = Slash

\* C14 as stated: a path of one or more '/' and nothing else gives no segment.
C14_Original ==
    (Single /\ output # None /\ OnlySlashes(input.val)) => Unwrap(output) = << >>

\* C14 amended: a path of n >= 1 separators and nothing else gives no segment
\* for n = 1 and n = 2, and n - 1 empty segments for n >= 3.
C14_Amended ==
    (Single /\ output # None /\ OnlySlashes(input.val)) =>
        LET n == Len(input.val)
        IN IF n <= 2 THEN Unwrap(output) = << >>
           ELSE Unwrap(output) = [i \in 1..(n - 1) |-> << >>]

C14_Witness ==
    /\ input = [kind |-> "bytes", val |-> <<"/", "/", "/">>]
    /\ output = Some(<< << >>, << >> >>)

\* The concatenation of the segments of the elements, built from the last one.
RECURSIVE RefConcat(_)
RefConcat(items) ==
    IF items = << >> THEN << >>
    ELSE RefConcat(SubSeq(items, 1, Len(items) - 1)) \o RefSegments(items[Len(items)])

IsRoot(path) == path \in {PathRoot, << >>}

\* C15: for a container segments() is the concatenation, in container order,
\* of the segments of each element; the root elements ("/" and "") contribute
\* nothing; the two example containers give [a, b, c, d] and
\* [path, to, somewhere, else].
C15_ContainerConcat ==
    (input.kind = "container" /\ output # None) =>
        /\ Unwrap(output) = RefConcat(input.val)
        /\ Unwrap(output) = RefConcat(SelectSeq(input.val, LAMBDA e : ~IsRoot(e)))
        /\ input.val = ContainerABCD =>
              Unwrap(output) = << <<"a">>, <<"b">>, <<"c">>, <<"d">> >>
        /\ input.val = ContainerDoc =>
              Unwrap(output) = << <<"p","a","t","h">>, <<"t","o">>,
                                  <<"s","o","m","e","w","h","e","r","e">>,
                                  <<"e","l","s","e">> >>

C15_Witness ==
    /\ input = [kind |-> "container", val |-> ContainerABCD]
    /\ output = Some(<< <<"a">>, <<"b">>, <<"c">>, <<"d">> >>)

\* ------------------------------------------- claims on the grouping of runs

\* The bindings variables(names) emits before they enter the mapping.
Emitted(names) == collect(VariableIter_new(names, values(Self)), debug_assertions)

\* The positions of the segments with a named slot id, in path order.
NamedAt(names) ==
    SelectSeq([i \in 1..Len(route) |-> i],
              LAMBDA i : variables[i] # None /\ Named(names, Unwrap(variables[i])))

\* The reference runs: NamedAt cut wherever the slot id changes. Each run is
\* the sequence of its positions.
RefRuns(names) ==
    LET at == NamedAt(names)
        starts == SelectSeq([j \in 1..Len(at) |-> j],
                            LAMBDA j : j = 1 \/ variables[at[j]] # variables[at[j - 1]])
    IN [r \in 1..Len(starts) |->
            SubSeq(at, starts[r],
                   IF r = Len(starts) THEN Len(at) ELSE starts[r + 1] - 1)]

\* The binding of a run: the name of its slot id and its segments joined.
RunName(names, run) == names[Unwrap(variables[run[1]]) + 1]

RunValue(run) == Join([j \in 1..Len(run) |-> route[run[j]]])

\* The run position i is in.
RunOf(names, i) ==
    LET runs == RefRuns(names)
    IN CHOOSE r \in 1..Len(runs) : \E j \in 1..Len(runs[r]) : runs[r][j] = i

\* A segment with another named slot id lies between positions i and l.
SplitBetween(names, i, l) ==
    \E j \in Slots :
        /\ i < j /\ j < l
        /\ variables[j] # variables[i]
        /\ Named(names, Unwrap(variables[j]))

\* Two positions that carry the same named slot id.
SameNamedSlot(names, i, l) ==
    /\ i \in Slots /\ l \in Slots /\ i < l
    /\ variables[i] = variables[l]
    /\ Named(names, Unwrap(variables[i]))

\* Positions i and l are emitted as two bindings of the same name, and the
\* mapping has the value of the later one only.
SeparateBindings(names, i, l) ==
    LET r == variables_call(Self, names, debug_assertions)
        em == Emitted(names)
        n == names[Unwrap(variables[i]) + 1]
    IN \E e1, e2 \in 1..Len(em) :
          /\ e1 < e2
          /\ em[e1][1] = n /\ em[e2][1] = n
          /\ em[e2][2] = RunValue(RefRuns(names)[RunOf(names, l)])
          /\ \A e3 \in (e2 + 1)..Len(em) : em[e3][1] # n
          /\ r.map[n] = em[e2][2]

\* C16 as stated: two segments with the same named slot id and a segment
\* without that slot id between them are emitted as two separate bindings of
\* the same name, the mapping holding the later one's value.
C16_Original ==
    \A names \in NameTables :
        ~variables_call(Self, names, debug_assertions).panic =>
            \A i, l \in 1..Len(route) :
                (/\ SameNamedSlot(names, i, l)
                 /\ \E j \in (i + 1)..(l - 1) : variables[j] # variables[i])
                    => SeparateBindings(names, i, l)

\* C16 amended: two segments with the same named slot id are emitted in two
\* separate bindings exactly when a segment with a different NAMED slot id lies
\* between them (a segment that is unassigned, or whose slot id has no name,
\* does not separate them: they are joined). When they are separate, and no
\* later segment of that name follows, the mapping holds the later one's
\* value; in general the mapping holds, for a name, the last binding emitted
\* with it. (A build with debug assertions panics instead when a slot id is
\* out of range.)
C16_Amended ==
    \A names \in NameTables :
        LET r == variables_call(Self, names, debug_assertions)
            em == Emitted(names)
            runs == RefRuns(names)
        IN ~r.panic =>
            /\ Len(em) = Len(runs)
            /\ \A e \in 1..Len(em) : em[e] = <<RunName(names, runs[e]), RunValue(runs[e])>>
            /\ \A n \in DOMAIN r.map :
                  \E e \in 1..Len(em) :
                      /\ em[e] = <<n, r.map[n]>>
                      /\ \A e2 \in (e + 1)..Len(em) : em[e2][1] # n
            /\ \A i, l \in 1..Len(route) :
                  SameNamedSlot(names, i, l) =>
                      /\ (RunOf(names, i) # RunOf(names, l)) <=> SplitBetween(names, i, l)
                      /\ (/\ SplitBetween(names, i, l)
                          /\ \A j \in Slots :
                                (j > l /\ Named(names, Unwrap(variables[j])))
                                    => variables[j] = variables[l])
                            => SeparateBindings(names, i, l)

C16_Witness ==
    /\ ~debug_assertions
    /\ route = segments(PathABC)
    /\ variables = <<Some(0), Some(1), Some(0)>>
    /\ Emitted(NamesPathId) = << <<"path", <<"a">> >>, <<"id", <<"b">> >>, <<"path", <<"c">> >> >>
    /\ variables_call(Self, NamesPathId, debug_assertions)
          = Bytes(("path" :> <<"c">>) @@ ("id" :> <<"b">>))

\* ------------------------------------------------ claims on fuse and on
\* the exhausted state

\* C17: fuse() on a state that is not exhausted writes var_index into the slot
\* of the current segment, advances index by one and leaves var_index, the
\* route and every other slot as they are; so the segments of a run of
\* consecutive fuse decisions all hold one slot id, and a keep decided
\* directly after the run writes that same id.
C17_FuseSharesSlot ==
    /\ index < Len(route) =>
          LET f == fuse(Self)
          IN /\ f.variables[index + 1] = Some(var_index)
             /\ \A i \in 1..Len(route) : i # index + 1 => f.variables[i] = variables[i]
             /\ Len(f.variables) = Len(variables)
             /\ f.index = index + 1
             /\ f.var_index = var_index
             /\ f.route = route
    /\ \A i, j \in 1..Len(decisions) :
          (/\ i < j /\ j <= Len(route)
           /\ \A k \in i..(j - 1) : decisions[k] = "fuse"
           /\ decisions[j] \in {"fuse", "keep"})
              => /\ variables[i] # None
                 /\ variables[j] = variables[i]

C17_Witness ==
    /\ decisions = <<"fuse", "fuse", "keep">>
    /\ variables = <<Some(0), Some(0), Some(0)>>
    /\ index = 3
    /\ var_index = 1

\* The reference mapping: every run inserts its binding in run order, so a
\* name maps to the value of the last run that has it.
RefMap(names) ==
    LET runs == RefRuns(names)
        ns == {RunName(names, runs[r]) : r \in 1..Len(runs)}
    IN [n \in ns |->
            RunValue(runs[CHOOSE r \in 1..Len(runs) :
                            /\ RunName(names, runs[r]) = n
                            /\ \A r2 \in (r + 1)..Len(runs) : RunName(names, runs[r2]) # n])]

\* Some assigned segment has a slot id out of range of names.
OutOfRange(names) == \E i \in Slots : Unwrap(variables[i]) >= Len(names)

\* C18 as stated: variables(names) is the reference single pass over the
\* assigned segments: those with a slot id out of range or with an empty name
\* dropped, the rest cut into maximal runs of equal slot id, each run
\* inserting its name with its segments joined by '/', in run order.
C18_Original ==
    \A names \in NameTables :
        variables_call(Self, names, debug_assertions) = Bytes(RefMap(names))

\* C18 amended: the same whenever variables(names) returns; and it returns
\* unless the build has debug assertions and some assigned segment has a slot
\* id out of range of names, in which case it panics.
C18_Amended ==
    \A names \in NameTables :
        LET r == variables_call(Self, names, debug_assertions)
        IN /\ r.panic <=> (debug_assertions /\ OutOfRange(names))
           /\ ~r.panic => r.map = RefMap(names)

C18_Witness ==
    /\ ~debug_assertions
    /\ route = segments(PathABC)
    /\ variables = <<Some(0), Some(1), Some(0)>>
    /\ variables_call(Self, NamesOneId, debug_assertions) = Bytes("id" :> <<"a", "/", "c">>)

\* C19: with no segment left (index >= number of segments) skip(), keep() and
\* fuse() leave the slots and the route as they are and still advance index by
\* one, keep() incrementing var_index as well; and in every reachable state
\* there are as many slots as segments.
C19_ExhaustedCalls ==
    /\ Len(variables) = Len(route)
    /\ index >= Len(route) =>
          /\ skip(Self) = [Self EXCEPT !.index = index + 1]
          /\ fuse(Self) = [Self EXCEPT !.index = index + 1]
          /\ keep(Self) = [Self EXCEPT !.index = index + 1, !.var_index = var_index + 1]
          /\ \A d \in {"skip", "keep", "fuse"} :
                /\ decide(Self, d).variables = variables
                /\ decide(Self, d).route = route

\* keep() has been called on an exhausted state: index and var_index have
\* passed the three segments of the path.
C19_Witness ==
    /\ route = segments(PathABC)
    /\ index = Len(route) + 1
    /\ var_index = Len(route) + 1
    /\ variables = <<Some(0), Some(1), Some(2)>>

\* The named slot ids some segment holds.
NamedSlots(names) ==
    {Unwrap(variables[i]) : i \in {s \in Slots : Named(names, Unwrap(variables[s]))}}

\* No two slot ids share a non-empty name.
DistinctNames(names) ==
    \A a, b \in 1..Len(names) : (a # b /\ names[a] # "") => names[a] # names[b]

\* C20: as long as no go_to has been called on a RouteState, the slot ids of
\* its assigned segments do not decrease in path order and none exceeds
\* var_index; so variables() emits one binding for each named slot id some
\* segment holds, with all the segments of that slot id, and when the names
\* are pairwise distinct every emitted binding is in the mapping.
C20_MonotoneSlots ==
    ~backtracked =>
        /\ \A i, j \in Slots : i < j => Unwrap(variables[i]) <= Unwrap(variables[j])
        /\ \A i \in Slots : Unwrap(variables[i]) <= var_index
        /\ \A names \in NameTables :
              LET r == variables_call(Self, names, debug_assertions)
                  em == Emitted(names)
              IN ~r.panic =>
                    /\ Len(em) = Cardinality(NamedSlots(names))
                    /\ \A k \in NamedSlots(names) :
                          \E e \in 1..Len(em) : em[e] = <<names[k + 1], Join(SegsOf(k))>>
                    /\ DistinctNames(names) =>
                          /\ Cardinality(DOMAIN r.map) = Len(em)
                          /\ \A e \in 1..Len(em) :
                                /\ em[e][1] \in DOMAIN r.map
                                /\ r.map[em[e][1]] = em[e][2]

C20_Witness ==
    /\ ~backtracked
    /\ route = segments(PathUsers)
    /\ decisions = <<"keep", "fuse", "keep">>
    /\ variables = <<Some(0), Some(1), Some(1)>>
    /\ var_index = 2
    /\ Len(Emitted(NamesPathId)) = 2
    /\ variables_call(Self, NamesPathId, debug_assertions)
          = Bytes(("path" :> <<"u","s","e","r","s">>)
                   @@ ("id" :> <<"4","2","/","e","d","i","t">>))

====
